---------------------------- MODULE Spec2Model ----------------------------
(***************************************************************************)
(* A model of the agsol-wasm-client RPC client (rpc_client.rs,             *)
(* rpc_response.rs): the client facade's state, the transaction            *)
(* submitter's dual-shape response decoding, the commitment evaluator and  *)
(* the confirmation poller.  The server and the transport are the          *)
(* environment: every response is drawn from a bounded set of payloads.    *)
(***************************************************************************)
EXTENDS Integers, Sequences, FiniteSets, TLC

(***************************************************************************)
(* Bounds of the model.                                                    *)
(***************************************************************************)
\* largest confirmations count a status record carries
MaxConfirmations == 3
\* longest list of diagnostic log lines in a transaction error
MaxLogs == 2
\* most status polls one send_and_confirm_transaction call issues
MaxPolls == 3
\* most operations (other than set_commitment) called on one client
MaxCalls == 1
\* most read operations called on one long-lived client
MaxReads == 2

(***************************************************************************)
(* Data.                                                                   *)
(***************************************************************************)
\* Option<T>: None, or Some(x) with x == Unwrap(Some(x))
None == <<>>

Some(x) == <<x>>

Unwrap(o) == o[1]

\* ClientResult<T>
Ok(v) == [kind |-> "Ok", val |-> v]

Err(m) == [kind |-> "Err", msg |-> m]

\* no call has returned yet
Pending == [kind |-> "Pending"]

\* rpc_client.rs: enum Net (the clusters the model's clients are built for)
Net == {"Devnet"}

\* the client's CommitmentLevel, as matched in get_signature_status
CommitmentLevel == {"Processed", "Confirmed", "Finalized"}

\* struct RpcConfig, as built by new and by the tests
RpcConfig ==
    [encoding : {Some("JsonParsed")},
     commitment : {None} \cup {Some(c) : c \in CommitmentLevel}]

\* struct RpcTransactionConfig, as a caller of send_transaction_with_config builds it
RpcTransactionConfig ==
    {[skip_preflight |-> TRUE, preflight_commitment |-> None, encoding |-> None],
     [skip_preflight |-> FALSE, preflight_commitment |-> Some("Finalized"),
      encoding |-> Some("JsonParsed")]}

\* rpc_response.rs: enum TransactionConfirmationStatus
TransactionConfirmationStatus == {"Processed", "Confirmed", "Finalized"}

\* rpc_response.rs: struct TransactionStatus.  The records a server sends: the
\* legacy status and err fields agree in all but a few, which also differ in slot.
TransactionStatus ==
    [slot : {7},
     confirmations : {None} \cup {Some(n) : n \in 0..MaxConfirmations},
     status : {"Ok"},
     err : {None},
     confirmation_status : {None} \cup {Some(s) : s \in TransactionConfirmationStatus}]
        \cup
    [slot : {7},
     confirmations : {None} \cup {Some(n) : n \in 0..MaxConfirmations},
     status : {"Err"},
     err : {Some("InstructionError")},
     confirmation_status : {None} \cup {Some(s) : s \in TransactionConfirmationStatus}]
        \cup
    [slot : {8},
     confirmations : {None, Some(MaxConfirmations)},
     status : {"Ok", "Err"},
     err : {None, Some("InstructionError")},
     confirmation_status : {None, Some("Finalized")}]

\* the transactions a caller submits
Transactions == {"txA"}

\* strings a server may put where a signature is expected: SignatureStrings are
\* base58 renderings of 64 bytes, the third string is not
SignatureStrings == {"sigA", "sigB"}

Strings == SignatureStrings \cup {"not-a-signature"}

LogLines == {"log0", "log1"}

RECURSIVE SeqsUpTo(_, _)
SeqsUpTo(S, n) ==
    IF n = 0 THEN {<<>>}
    ELSE LET shorter == SeqsUpTo(S, n - 1)
         IN  shorter \cup {Append(q, x) : q \in {r \in shorter : Len(r) = n - 1}, x \in S}

\* the accounts a caller asks about
Pubkeys == {"alice", "bob"}

\* strings a server may put where an account's owner is expected: the base58
\* rendering of 32 bytes, the base58 rendering of fewer bytes, and a string that
\* is not base58
OwnerStrings == {"owner32", "short58", "not-base58"}

\* struct Account, by its owner and its data: data that is the borsh encoding of
\* the type asked for, data that is its JSON rendering, and data that is neither
Accounts ==
    {[owner |-> "owner32", data |-> "borsh"],
     [owner |-> "short58", data |-> "json"],
     [owner |-> "not-base58", data |-> "neither"]}

\* the u64 and i64 values a server reports (lamports, slots, timestamps)
Numbers == {0, 5500}

\* strings a server may put where a blockhash is expected
BlockhashStrings == {"hashA", "not-a-hash"}

(***************************************************************************)
(* JSON payloads.  A member of a response object is absent or holds a      *)
(* string, an object of the RpcTransactionError shape {code, data: {err,   *)
(* logs}, message}, or another value (a number, null, an error object      *)
(* without data, ...).                                                     *)
(***************************************************************************)
Absent == [t |-> "absent"]

StrValue(s) == [t |-> "str", s |-> s]

TxErrorValue(m, l) == [t |-> "txerr", message |-> m, logs |-> l]

OtherValue == [t |-> "other"]

JsonValues ==
    {StrValue(s) : s \in Strings}
        \cup {TxErrorValue("Transaction simulation failed", l) :
                 l \in SeqsUpTo(LogLines, MaxLogs)}
        \cup {TxErrorValue("Blockhash not found", <<>>)}
        \cup {OtherValue}

\* The JSON objects a server answers with.  envelope: the id and jsonrpc members
\* are present with the right types.  Objects holding both a result and an error
\* member are taken with one signature string as the result; objects without the
\* envelope with one member.
Payloads ==
    [envelope : {TRUE}, result : JsonValues, error : {Absent}]
        \cup [envelope : {TRUE}, result : {Absent}, error : JsonValues \cup {Absent}]
        \cup [envelope : {TRUE}, result : {StrValue("sigA")}, error : JsonValues]
        \cup [envelope : {FALSE}, result : {StrValue("sigA"), Absent}, error : {Absent}]
        \cup [envelope : {FALSE}, result : {Absent},
              error : {TxErrorValue("Blockhash not found", <<>>)}]

\* what reqwest hands back for a request decoded as serde_json::Value: an error
\* (no connection, or a body that is not JSON) or the JSON object
TransportError == [t |-> "err"]

JsonOutcomes == {TransportError} \cup {[t |-> "json", v |-> p] : p \in Payloads}

\* what reqwest hands back for a getSignatureStatuses request decoded as
\* RpcResponse<RpcResultWithContext<Vec<Option<TransactionStatus>>>>: an error
\* (transport, or a body not of that type) or the decoded value list
StatusOutcomes ==
    {TransportError}
        \cup {[t |-> "value", v |-> <<>>], [t |-> "value", v |-> <<None>>]}
        \cup {[t |-> "value", v |-> <<Some(r)>>] : r \in TransactionStatus}

\* what reqwest hands back for a request decoded as RpcResponse<T> with T an
\* Account, a list of Accounts, a number, a String or a Blockhash (inside
\* RpcResultWithContext where the method has one): an error (transport, or a body
\* not of that type) or the decoded value
AccountOutcomes == {TransportError} \cup {[t |-> "value", v |-> a] : a \in Accounts}

AccountListOutcomes ==
    {TransportError, [t |-> "value", v |-> <<>>]}
        \cup {[t |-> "value", v |-> <<a, b>>] :
                 a \in {x \in Accounts : x.data = "borsh"},
                 b \in {x \in Accounts : x.data = "json"}}

NumberOutcomes == {TransportError} \cup {[t |-> "value", v |-> n] : n \in Numbers}

StringOutcomes == {TransportError} \cup {[t |-> "value", v |-> s] : s \in Strings}

BlockhashOutcomes ==
    {TransportError} \cup {[t |-> "value", v |-> [blockhash |-> s]] : s \in BlockhashStrings}

(***************************************************************************)
(* The commitment evaluator (rpc_response.rs).                             *)
(***************************************************************************)
\* CommitmentConfig::is_finalized / is_confirmed for the three levels the client passes
is_finalized(commitment) == commitment = "Finalized"

is_confirmed(commitment) == commitment = "Confirmed"

\* satisfies_commitment with Finalized decided by the explicit status field
satisfies_commitment_by_status(self, commitment) ==
    IF is_finalized(commitment)
    THEN self.confirmations = None \/ self.confirmation_status = Some("Finalized")
    ELSE IF is_confirmed(commitment)
         THEN IF self.confirmation_status # None
              THEN Unwrap(self.confirmation_status) # "Processed"
              ELSE \/ (self.confirmations # None /\ Unwrap(self.confirmations) > 1)
                   \/ self.confirmations = None
         ELSE TRUE

\* satisfies_commitment with the numeric fallback tried before the explicit field
satisfies_commitment_numeric_first(self, commitment) ==
    IF is_finalized(commitment)
    THEN self.confirmations = None
    ELSE IF is_confirmed(commitment)
         THEN IF self.confirmations = None \/ Unwrap(self.confirmations) > 1
              THEN TRUE
              ELSE self.confirmation_status # None
                       /\ Unwrap(self.confirmation_status) # "Processed"
         ELSE TRUE

\* satisfies_commitment with the fallback threshold off by one (> 0)
satisfies_commitment_one_confirmation(self, commitment) ==
    IF is_finalized(commitment)
    THEN self.confirmations = None
    ELSE IF is_confirmed(commitment)
         THEN IF self.confirmation_status # None
              THEN Unwrap(self.confirmation_status) # "Processed"
              ELSE \/ (self.confirmations # None /\ Unwrap(self.confirmations) > 0)
                   \/ self.confirmations = None
         ELSE TRUE

\* TransactionStatus::satisfies_commitment
satisfies_commitment(self, commitment) ==
    IF is_finalized(commitment)
    THEN self.confirmations = None
    ELSE IF is_confirmed(commitment)
         THEN IF self.confirmation_status # None
              THEN Unwrap(self.confirmation_status) # "Processed"
              ELSE \/ (self.confirmations # None /\ Unwrap(self.confirmations) > 1)
                   \/ self.confirmations = None
         ELSE TRUE

\* TransactionStatus::confirmation_status: the explicit field, or the level
\* derived from confirmations
confirmation_status(self) ==
    IF self.confirmation_status # None THEN Unwrap(self.confirmation_status)
    ELSE IF self.confirmations = None THEN "Finalized"
    ELSE IF Unwrap(self.confirmations) > 0 THEN "Confirmed"
    ELSE "Processed"

(***************************************************************************)
(* Response decoding (rpc_response.rs, rpc_client.rs).                     *)
(***************************************************************************)
\* RpcResponse<T> decoding that takes the result member when both are present
RpcResponse_field_first_member(json) ==
    IF ~json.envelope THEN None
    ELSE IF json.result # Absent THEN Some(json.result)
    ELSE IF json.error # Absent THEN Some(json.error)
    ELSE None

\* serde's derived Deserialize for RpcResponse<T>: id and jsonrpc are required,
\* and the result field is filled from the member named result or error; a
\* missing member and a repeated member (both names present) are both errors.
\* None when the object is no RpcResponse<T>, else Some(the result field's value).
RpcResponse_field(json) ==
    IF ~json.envelope THEN None
    ELSE IF json.result # Absent /\ json.error # Absent THEN None
    ELSE IF json.result # Absent THEN Some(json.result)
    ELSE IF json.error # Absent THEN Some(json.error)
    ELSE None

\* serde_json::from_value::<RpcResponse<String>>
from_value_String(json) ==
    LET field == RpcResponse_field(json)
    IN  IF field # None /\ Unwrap(field).t = "str" THEN Some(Unwrap(field).s) ELSE None

\* serde_json::from_value::<RpcResponse<RpcTransactionError>>
from_value_RpcTransactionError(json) ==
    LET field == RpcResponse_field(json)
    IN  IF field # None /\ Unwrap(field).t = "txerr" THEN Some(Unwrap(field)) ELSE None

\* a Signature, named by its base58 rendering
Signature(s) == [base58 |-> s]

\* Signature::from_str: the 64 bytes a base58 string renders, or a ParseSignatureError
Signature_from_str(s) ==
    IF s \in SignatureStrings THEN Ok(Signature(s)) ELSE Err("ParseSignatureError")

\* the log lines numbered from one
debug_logs_one_based(logs) == [i \in 1..Len(logs) |-> <<i, logs[i]>>]

\* logs.iter().enumerate().for_each(|(i, log)| debug!("{} {}", i, log)):
\* the lines written, each a pair <<i, log>>
debug_logs(logs) == [i \in 1..Len(logs) |-> <<i - 1, logs[i]>>]

\* the match on the response without its signature arm
send_transaction_response_error_only(outcome) ==
    IF outcome.t = "err"
    THEN [ret |-> Err("transport"), logs |-> <<>>]
    ELSE LET tx_error == from_value_RpcTransactionError(outcome.v)
         IN  IF tx_error # None
             THEN [ret |-> Err(Unwrap(tx_error).message),
                   logs |-> debug_logs(Unwrap(tx_error).logs)]
             ELSE [ret |-> Err("failed to parse RPC response"), logs |-> <<>>]

\* The match on the response in send_transaction_with_config: what the call
\* returns and the debug lines it writes.
send_transaction_response(outcome) ==
    IF outcome.t = "err"
    THEN [ret |-> Err("transport"), logs |-> <<>>]
    ELSE LET json_value == outcome.v
             response == from_value_String(json_value)
             tx_error == from_value_RpcTransactionError(json_value)
         IN  IF response # None
             THEN [ret |-> Signature_from_str(Unwrap(response)), logs |-> <<>>]
             ELSE IF tx_error # None
                  THEN [ret |-> Err(Unwrap(tx_error).message),
                        logs |-> debug_logs(Unwrap(tx_error).logs)]
                  ELSE [ret |-> Err("failed to parse RPC response"), logs |-> <<>>]

\* the level match without its Processed arm
status_commitment_no_processed(commitment) ==
    IF commitment = Some("Finalized") THEN "Finalized" ELSE "Confirmed"

\* get_signature_status: the level handed to satisfies_commitment for the
\* client's configured commitment
status_commitment(commitment) ==
    IF commitment = Some("Processed") THEN "Processed"
    ELSE IF commitment = Some("Finalized") THEN "Finalized"
    ELSE "Confirmed"

\* the status chain ending in unwrap_or(true): a missing record counts as confirmed
status_result_absent_true(entry, commitment) ==
    IF entry = None THEN TRUE
    ELSE IF ~satisfies_commitment(Unwrap(entry), status_commitment(commitment)) THEN FALSE
    ELSE Unwrap(entry).status = "Ok"

\* get_signature_status: response.result.value[0].as_ref().filter(..).map(..)
\* .unwrap_or_default() on a decoded value list with a first entry
status_result(entry, commitment) ==
    IF entry = None THEN FALSE
    ELSE IF ~satisfies_commitment(Unwrap(entry), status_commitment(commitment)) THEN FALSE
    ELSE Unwrap(entry).status = "Ok"

\* What get_signature_status returns for a transport outcome: an error, a
\* boolean, or a panic (value[0] on an empty list is out of bounds).
Panic == [kind |-> "Panic"]

get_signature_status_response(outcome, commitment) ==
    IF outcome.t = "err" THEN Err("transport")
    ELSE IF Len(outcome.v) = 0 THEN Panic
    ELSE Ok(status_result(outcome.v[1], commitment))

\* let response: RpcResponse<..> = self.send(request).await?; Ok(response.result..)
typed_response(outcome) == IF outcome.t = "err" THEN Err("transport") ELSE Ok(outcome.v)

\* DataLike::parse_into_borsh::<T>
parse_into_borsh(data) == IF data = "borsh" THEN Ok("T") ELSE Err("decode")

\* DataLike::parse_into_json::<T>
parse_into_json(data) == IF data = "json" THEN Ok("T") ELSE Err("decode")

\* bs58::decode(account.owner).into_vec()? and Pubkey::new, which panics on a
\* slice that is not 32 bytes long
owner_pubkey(account) ==
    IF account.owner = "owner32" THEN Ok([pubkey |-> account.owner])
    ELSE IF account.owner = "short58" THEN Panic
    ELSE Err("bs58 decode")

\* Hash::from_str
Hash_from_str(s) == IF s = "hashA" THEN Ok([hash |-> s]) ELSE Err("ParseHashError")

(***************************************************************************)
(* The client (rpc_client.rs).                                             *)
(***************************************************************************)
VARIABLES
    config,        \* RpcClient.config
    net,           \* RpcClient.net
    request_id,    \* RpcClient.request_id, a u64 as four 16-bit limbs, lowest first
    pc,            \* where the running call stands: idle (none running), poll, sleep, panicked
    op,            \* the operation called last
    args,          \* the arguments it was called with
    signature,     \* send_and_confirm_transaction's local: the submitted transaction's signature
    response,      \* what the transport returned for the call's first request
    poll,          \* what the transport returned for the call's last getSignatureStatuses request
    evaluated,     \* the last application of satisfies_commitment: record, level, result
    ret,           \* what the call returned
    logs,          \* the debug lines the call wrote
    requests,      \* the requests the call dispatched, in order
    absent_before, \* every poll of the call before its last returned no status record
    calls          \* how many operations were called on the client (bounds the model)

vars ==
    <<config, net, request_id, pc, op, args, signature, response, poll, evaluated, ret,
      logs, requests, absent_before, calls>>

\* the width of a limb of request_id: 2^16
LimbBase == 65536

\* u64::wrapping_add(1) on the limbs
RECURSIVE wrapping_add_1(_)
wrapping_add_1(limbs) ==
    IF limbs = <<>> THEN <<>>
    ELSE IF Head(limbs) + 1 < LimbBase
         THEN <<Head(limbs) + 1>> \o Tail(limbs)
         ELSE <<0>> \o wrapping_add_1(Tail(limbs))

\* RpcRequest::build_request_json
build_request_json(method, id, params) ==
    [jsonrpc |-> "2.0", id |-> id, method |-> method, params |-> params]

NoOutcome == [t |-> "none"]

\* RpcClient::new_with_config: any cluster and config, request_id 0
Init ==
    /\ config \in RpcConfig
    /\ net \in Net
    /\ request_id = <<0, 0, 0, 0>>
    /\ pc = "idle"
    /\ op = "new_with_config"
    /\ args = [net |-> net, config |-> config]
    /\ signature = None
    /\ response = NoOutcome
    /\ poll = NoOutcome
    /\ evaluated = None
    /\ ret = Pending
    /\ logs = <<>>
    /\ requests = <<>>
    /\ absent_before = TRUE
    /\ calls = 0

\* set_commitment on a client that starts counting its requests anew
set_commitment_new_client(commitment) ==
    /\ pc = "idle"
    /\ config' = [config EXCEPT !.commitment = commitment]
    /\ request_id' = <<0, 0, 0, 0>>
    /\ op' = "set_commitment"
    /\ args' = [commitment |-> commitment]
    /\ signature' = None
    /\ response' = NoOutcome
    /\ poll' = NoOutcome
    /\ evaluated' = None
    /\ ret' = Pending
    /\ logs' = <<>>
    /\ requests' = <<>>
    /\ absent_before' = TRUE
    /\ UNCHANGED <<net, pc, calls>>

\* RpcClient::set_commitment
set_commitment(commitment) ==
    /\ pc = "idle"
    /\ config' = [config EXCEPT !.commitment = commitment]
    /\ op' = "set_commitment"
    /\ args' = [commitment |-> commitment]
    /\ signature' = None
    /\ response' = NoOutcome
    /\ poll' = NoOutcome
    /\ evaluated' = None
    /\ ret' = Pending
    /\ logs' = <<>>
    /\ requests' = <<>>
    /\ absent_before' = TRUE
    /\ UNCHANGED <<net, request_id, pc, calls>>

\* send that dispatches the request again after a first attempt
send_again(earlier, request) ==
    /\ request_id' = wrapping_add_1(wrapping_add_1(request_id))
    /\ requests' = Append(Append(earlier, request),
                          [request EXCEPT !.id = wrapping_add_1(request_id)])

\* send with the counter stopping at u64::MAX (a checked add)
send_checked(earlier, request) ==
    /\ request_id' = IF \A i \in 1..Len(request_id) : request_id[i] = LimbBase - 1
                     THEN request_id
                     ELSE wrapping_add_1(request_id)
    /\ requests' = Append(earlier, request)

\* RpcClient::send: the counter moves before the request leaves
send(earlier, request) ==
    /\ request_id' = wrapping_add_1(request_id)
    /\ requests' = Append(earlier, request)

\* a call of an operation begins, on a client that is called at most limit times
begin_within(limit, name) ==
    /\ pc = "idle"
    /\ calls < limit
    /\ calls' = calls + 1
    /\ op' = name

begin(name) == begin_within(MaxCalls, name)

\* the sendTransaction request send_transaction_with_config builds
send_transaction_request(transaction, tx_config) ==
    build_request_json("sendTransaction", request_id,
        <<[encoding |-> "Base64", bytes |-> transaction], tx_config>>)

\* RpcClient::send_transaction_with_config, called as operation name
send_transaction_call(name, transaction, tx_config, outcome) ==
    /\ begin(name)
    /\ args' = [transaction |-> transaction, config |-> tx_config]
    /\ send(<<>>, send_transaction_request(transaction, tx_config))
    /\ response' = outcome
    /\ ret' = send_transaction_response(outcome).ret
    /\ logs' = send_transaction_response(outcome).logs
    /\ signature' = None
    /\ poll' = NoOutcome
    /\ evaluated' = None
    /\ absent_before' = TRUE
    /\ UNCHANGED <<config, net, pc>>

send_transaction_with_config ==
    \E transaction \in Transactions, tx_config \in RpcTransactionConfig,
       outcome \in JsonOutcomes :
        send_transaction_call("send_transaction_with_config", transaction, tx_config, outcome)

\* the config send_transaction_unchecked builds
unchecked_config ==
    [skip_preflight |-> TRUE, preflight_commitment |-> Some("Processed"),
     encoding |-> Some("Base64")]

\* the config of send_transaction with the level new gives a client
checked_config_confirmed ==
    [skip_preflight |-> FALSE, preflight_commitment |-> Some("Confirmed"),
     encoding |-> Some("Base64")]

\* the config send_transaction builds
checked_config ==
    [skip_preflight |-> FALSE, preflight_commitment |-> config.commitment,
     encoding |-> Some("Base64")]

\* RpcClient::send_transaction_unchecked
send_transaction_unchecked ==
    \E transaction \in Transactions, outcome \in JsonOutcomes :
        send_transaction_call("send_transaction_unchecked", transaction, unchecked_config,
                              outcome)

\* RpcClient::send_transaction
send_transaction ==
    \E transaction \in Transactions, outcome \in JsonOutcomes :
        send_transaction_call("send_transaction", transaction, checked_config, outcome)

\* the signatures a caller asks the status of
Signatures == {Signature(s) : s \in SignatureStrings}

\* the getSignatureStatuses request get_signature_status builds
get_signature_status_request(sig) ==
    build_request_json("getSignatureStatuses", request_id, <<<<sig.base58>>>>)

\* the application of satisfies_commitment inside get_signature_status, if any
evaluation(outcome, commitment) ==
    IF outcome.t = "value" /\ Len(outcome.v) > 0 /\ outcome.v[1] # None
    THEN Some([status |-> Unwrap(outcome.v[1]),
               commitment |-> status_commitment(commitment),
               satisfied |-> satisfies_commitment(Unwrap(outcome.v[1]),
                                                  status_commitment(commitment))])
    ELSE None

no_record(outcome) == outcome.t = "value" /\ Len(outcome.v) > 0 /\ outcome.v[1] = None

\* RpcClient::get_signature_status, called by the user
get_signature_status ==
    \E sig \in Signatures, outcome \in StatusOutcomes :
        LET result == get_signature_status_response(outcome, config.commitment)
        IN  /\ begin("get_signature_status")
            /\ args' = [signature |-> sig]
            /\ send(<<>>, get_signature_status_request(sig))
            /\ poll' = outcome
            /\ evaluated' = evaluation(outcome, config.commitment)
            /\ absent_before' = TRUE
            /\ IF result.kind = "Panic"
               THEN pc' = "panicked" /\ ret' = Pending
               ELSE pc' = "idle" /\ ret' = result
            /\ signature' = None
            /\ response' = NoOutcome
            /\ logs' = <<>>
            /\ UNCHANGED <<config, net>>

\* a failed submission taken for one that returned the default signature
submitted_unwrap_or_default(sent) ==
    IF sent.kind = "Ok"
    THEN [signature |-> Some(sent.val), pc |-> "poll", ret |-> Pending]
    ELSE [signature |-> Some(Signature("sigA")), pc |-> "poll", ret |-> Pending]

\* the ? on send_transaction's result: an error ends the call, a signature is
\* bound and the loop is entered
submitted(sent) ==
    IF sent.kind = "Ok"
    THEN [signature |-> Some(sent.val), pc |-> "poll", ret |-> Pending]
    ELSE [signature |-> None, pc |-> "idle", ret |-> sent]

\* RpcClient::send_and_confirm_transaction: let signature = self.send_transaction(..).await?
send_and_confirm_submit ==
    \E transaction \in Transactions, outcome \in JsonOutcomes :
        LET sent == send_transaction_response(outcome)
        IN  /\ begin("send_and_confirm_transaction")
            /\ args' = [transaction |-> transaction]
            /\ send(<<>>, send_transaction_request(transaction, checked_config))
            /\ response' = outcome
            /\ logs' = sent.logs
            /\ signature' = submitted(sent.ret).signature
            /\ pc' = submitted(sent.ret).pc
            /\ ret' = submitted(sent.ret).ret
            /\ poll' = NoOutcome
            /\ evaluated' = None
            /\ absent_before' = TRUE
            /\ UNCHANGED <<config, net>>

\* the getSignatureStatuses requests the running call has dispatched
polls == Len(SelectSeq(requests, LAMBDA r : r.method = "getSignatureStatuses"))

\* the loop body giving up after the second poll
polled_twice_at_most(result) ==
    IF result.kind = "Panic" THEN [pc |-> "panicked", ret |-> Pending]
    ELSE IF result.kind = "Err" THEN [pc |-> "idle", ret |-> result]
    ELSE IF result.val THEN [pc |-> "idle", ret |-> Ok(Unwrap(signature))]
    ELSE IF Len(requests) >= 2 THEN [pc |-> "idle", ret |-> Err("timeout")]
    ELSE [pc |-> "sleep", ret |-> Pending]

\* the loop body with a failed poll taken for one that is not yet satisfied
polled_retry_on_error(result) ==
    IF result.kind = "Panic" THEN [pc |-> "panicked", ret |-> Pending]
    ELSE IF result.kind = "Err" THEN [pc |-> "sleep", ret |-> Pending]
    ELSE IF result.val THEN [pc |-> "idle", ret |-> Ok(Unwrap(signature))]
    ELSE [pc |-> "sleep", ret |-> Pending]

\* the loop body after the poll: ? on an error, break on true, else sleep
polled(result) ==
    IF result.kind = "Panic" THEN [pc |-> "panicked", ret |-> Pending]
    ELSE IF result.kind = "Err" THEN [pc |-> "idle", ret |-> result]
    ELSE IF result.val THEN [pc |-> "idle", ret |-> Ok(Unwrap(signature))]
    ELSE [pc |-> "sleep", ret |-> Pending]

\* RpcClient::send_and_confirm_transaction: one turn of the loop, up to the sleep
send_and_confirm_poll ==
    \E outcome \in StatusOutcomes :
        LET result == get_signature_status_response(outcome, config.commitment)
        IN  /\ pc = "poll"
            /\ polls < MaxPolls
            /\ send(requests, get_signature_status_request(Unwrap(signature)))
            /\ poll' = outcome
            /\ evaluated' = evaluation(outcome, config.commitment)
            /\ absent_before' = (absent_before /\ (polls = 0 \/ no_record(poll)))
            /\ pc' = polled(result).pc
            /\ ret' = polled(result).ret
            /\ UNCHANGED <<config, net, op, args, signature, response, logs, calls>>

\* RpcClient::send_and_confirm_transaction: sleep(Duration::from_millis(500))
send_and_confirm_sleep ==
    /\ pc = "sleep"
    /\ pc' = "poll"
    /\ UNCHANGED <<config, net, request_id, op, args, signature, response, poll, evaluated,
                   ret, logs, requests, absent_before, calls>>

(***************************************************************************)
(* The read operations: each builds one request, sends it and decodes the  *)
(* typed response.                                                         *)
(***************************************************************************)
\* a call of operation name that dispatches request and returns result
typed_call(limit, name, arguments, request, outcome, result) ==
    /\ begin_within(limit, name)
    /\ args' = arguments
    /\ send(<<>>, request)
    /\ response' = outcome
    /\ IF result.kind = "Panic"
       THEN pc' = "panicked" /\ ret' = Pending
       ELSE pc' = "idle" /\ ret' = result
    /\ signature' = None
    /\ poll' = NoOutcome
    /\ evaluated' = None
    /\ logs' = <<>>
    /\ absent_before' = TRUE
    /\ UNCHANGED <<config, net>>

\* the getAccountInfo request get_account builds
get_account_request(account_pubkey) ==
    build_request_json("getAccountInfo", request_id, <<account_pubkey, config>>)

\* RpcClient::get_account
get_account(limit) ==
    \E account_pubkey \in Pubkeys, outcome \in AccountOutcomes :
        typed_call(limit, "get_account", [account_pubkey |-> account_pubkey],
                   get_account_request(account_pubkey), outcome, typed_response(outcome))

\* RpcClient::get_multiple_accounts
get_multiple_accounts(limit) ==
    \E outcome \in AccountListOutcomes :
        typed_call(limit, "get_multiple_accounts", [pubkeys |-> <<"alice", "bob">>],
                   build_request_json("getMultipleAccounts", request_id,
                                      <<<<"alice", "bob">>, config>>),
                   outcome, typed_response(outcome))

\* RpcClient::get_and_deserialize_account_data
get_and_deserialize_account_data(limit) ==
    \E account_pubkey \in Pubkeys, outcome \in AccountOutcomes :
        LET account == typed_response(outcome)
        IN  typed_call(limit, "get_and_deserialize_account_data",
                       [account_pubkey |-> account_pubkey],
                       get_account_request(account_pubkey), outcome,
                       IF account.kind = "Ok" THEN parse_into_borsh(account.val.data)
                       ELSE account)

\* RpcClient::get_and_deserialize_parsed_account_data
get_and_deserialize_parsed_account_data(limit) ==
    \E account_pubkey \in Pubkeys, outcome \in AccountOutcomes :
        LET account == typed_response(outcome)
        IN  typed_call(limit, "get_and_deserialize_parsed_account_data",
                       [account_pubkey |-> account_pubkey],
                       get_account_request(account_pubkey), outcome,
                       IF account.kind = "Ok" THEN parse_into_json(account.val.data)
                       ELSE account)

\* RpcClient::get_owner
get_owner(limit) ==
    \E account_pubkey \in Pubkeys, outcome \in AccountOutcomes :
        LET account == typed_response(outcome)
        IN  typed_call(limit, "get_owner", [account_pubkey |-> account_pubkey],
                       get_account_request(account_pubkey), outcome,
                       IF account.kind = "Ok" THEN owner_pubkey(account.val) ELSE account)

\* get_balance with the request counter leaking into the balance
get_balance_response_by_counter(outcome) ==
    IF outcome.t = "err" THEN Err("transport") ELSE Ok(outcome.v + request_id[1])

\* get_balance: Ok(response.result.value)
get_balance_response(outcome) == typed_response(outcome)

\* RpcClient::get_balance
get_balance(limit) ==
    \E account_pubkey \in Pubkeys, outcome \in NumberOutcomes :
        typed_call(limit, "get_balance", [account_pubkey |-> account_pubkey],
                   build_request_json("getBalance", request_id, <<account_pubkey, config>>),
                   outcome, get_balance_response(outcome))

\* RpcClient::get_minimum_balance_for_rent_exemption
get_minimum_balance_for_rent_exemption(limit) ==
    \E data_len \in Numbers, outcome \in NumberOutcomes :
        typed_call(limit, "get_minimum_balance_for_rent_exemption", [data_len |-> data_len],
                   build_request_json("getMinimumBalanceForRentExemption", request_id,
                                      <<data_len>>),
                   outcome, typed_response(outcome))

\* RpcClient::request_airdrop
request_airdrop(limit) ==
    \E pubkey \in Pubkeys, lamports \in Numbers \ {0}, outcome \in StringOutcomes :
        LET answer == typed_response(outcome)
        IN  typed_call(limit, "request_airdrop",
                       [pubkey |-> pubkey, lamports |-> lamports,
                        recent_blockhash |-> "hashA"],
                       build_request_json("requestAirdrop", request_id,
                           <<pubkey, lamports,
                             [recent_blockhash |-> Some("hashA"),
                              commitment |-> config.commitment]>>),
                       outcome,
                       IF answer.kind = "Ok" THEN Signature_from_str(answer.val)
                       ELSE answer)

\* RpcClient::get_latest_blockhash
get_latest_blockhash(limit) ==
    \E outcome \in BlockhashOutcomes :
        LET answer == typed_response(outcome)
        IN  typed_call(limit, "get_latest_blockhash", <<>>,
                       build_request_json("getRecentBlockhash", request_id, <<config>>),
                       outcome,
                       IF answer.kind = "Ok" THEN Hash_from_str(answer.val.blockhash)
                       ELSE answer)

\* RpcClient::get_slot
get_slot(limit) ==
    \E outcome \in NumberOutcomes :
        typed_call(limit, "get_slot", <<>>,
                   build_request_json("getSlot", request_id, <<config>>),
                   outcome, typed_response(outcome))

\* RpcClient::get_block_time
get_block_time(limit) ==
    \E slot \in Numbers, outcome \in NumberOutcomes :
        typed_call(limit, "get_block_time", [slot |-> slot],
                   build_request_json("getBlockTime", request_id, <<slot>>),
                   outcome, typed_response(outcome))

Next ==
    \/ \E commitment \in {None} \cup {Some(c) : c \in CommitmentLevel} :
           set_commitment(commitment)
    \/ send_transaction_with_config
    \/ send_transaction_unchecked
    \/ send_transaction
    \/ get_signature_status
    \/ send_and_confirm_submit
    \/ send_and_confirm_poll
    \/ send_and_confirm_sleep
    \/ get_account(MaxCalls)
    \/ get_multiple_accounts(MaxCalls)
    \/ get_and_deserialize_account_data(MaxCalls)
    \/ get_and_deserialize_parsed_account_data(MaxCalls)
    \/ get_owner(MaxCalls)
    \/ get_balance(MaxCalls)
    \/ get_minimum_balance_for_rent_exemption(MaxCalls)
    \/ request_airdrop(MaxCalls)
    \/ get_latest_blockhash(MaxCalls)
    \/ get_slot(MaxCalls)
    \/ get_block_time(MaxCalls)

Spec == Init /\ [][Next]_vars

(***************************************************************************)
(* A long-lived client: one just built, or one that has dispatched         *)
(* 2^64 - 1 requests and had its commitment set, on which the read         *)
(* operations are called.                                                  *)
(***************************************************************************)
\* u64::MAX on the limbs
U64Max == <<LimbBase - 1, LimbBase - 1, LimbBase - 1, LimbBase - 1>>

InitReads ==
    /\ config \in RpcConfig
    /\ net \in Net
    /\ \/ /\ request_id = <<0, 0, 0, 0>>
          /\ op = "new_with_config"
          /\ args = [net |-> net, config |-> config]
       \/ /\ request_id = U64Max
          /\ op = "set_commitment"
          /\ args = [commitment |-> config.commitment]
    /\ pc = "idle"
    /\ signature = None
    /\ response = NoOutcome
    /\ poll = NoOutcome
    /\ evaluated = None
    /\ ret = Pending
    /\ logs = <<>>
    /\ requests = <<>>
    /\ absent_before = TRUE
    /\ calls = 0

NextReads ==
    \/ \E commitment \in {None} \cup {Some(c) : c \in CommitmentLevel} :
           set_commitment(commitment)
    \/ get_account(MaxReads)
    \/ get_multiple_accounts(MaxReads)
    \/ get_and_deserialize_account_data(MaxReads)
    \/ get_and_deserialize_parsed_account_data(MaxReads)
    \/ get_owner(MaxReads)
    \/ get_balance(MaxReads)
    \/ get_minimum_balance_for_rent_exemption(MaxReads)
    \/ request_airdrop(MaxReads)
    \/ get_latest_blockhash(MaxReads)
    \/ get_slot(MaxReads)
    \/ get_block_time(MaxReads)

SpecReads == InitReads /\ [][NextReads]_vars

(***************************************************************************)
(* The claims.                                                             *)
(***************************************************************************)
Confirming == op = "send_and_confirm_transaction"

Submitting ==
    op \in {"send_transaction", "send_transaction_unchecked", "send_transaction_with_config"}

\* the last poll returned a status record
HasRecord == poll.t = "value" /\ Len(poll.v) > 0 /\ poll.v[1] # None

\* scenario C's record: {confirmations: None, confirmation_status: finalized}, result ok
IsFinalizedOk(status) ==
    /\ status.confirmations = None
    /\ status.confirmation_status = Some("Finalized")
    /\ status.status = "Ok"

\* C1: send_and_confirm_transaction returns Ok(signature) only after a poll whose
\* response holds a status record that satisfies the configured commitment; a poll
\* that returns no record leaves the call running, about to poll again; and when
\* every poll before the last returned no record and the last returns the
\* finalized, ok record, the call has returned the signature at that poll.
C1_ReturnsOnlyAfterSatisfiedPoll ==
    /\ (Confirming /\ ret.kind = "Ok") =>
           /\ polls >= 1
           /\ HasRecord
           /\ satisfies_commitment(Unwrap(poll.v[1]), status_commitment(config.commitment))
           /\ ret.val = Unwrap(signature)
    /\ (Confirming /\ polls >= 1 /\ no_record(poll)) =>
           /\ ret.kind = "Pending"
           /\ pc \in {"sleep", "poll"}
    /\ (Confirming /\ polls >= 1 /\ absent_before /\ HasRecord
           /\ IsFinalizedOk(Unwrap(poll.v[1]))) =>
           /\ pc = "idle"
           /\ ret = Ok(Unwrap(signature))

\* scenario C: two polls without a record, the third finalized, and the call returned
C1_Witness ==
    /\ Confirming
    /\ polls = 3
    /\ absent_before
    /\ HasRecord
    /\ IsFinalizedOk(Unwrap(poll.v[1]))
    /\ ret.kind = "Ok"
    /\ pc = "idle"

\* C2: at the first poll whose record satisfies the requested commitment,
\* send_and_confirm_transaction stops polling and returns the signature (stated
\* for submissions answered with a result member).
C2_StopsAtSatisfyingRecord ==
    (Confirming /\ polls >= 1 /\ response.v.error = Absent
        /\ evaluated # None /\ Unwrap(evaluated).satisfied) =>
        /\ pc = "idle"
        /\ ret = Ok(Unwrap(signature))

\* C3: with level Finalized, satisfies_commitment is true exactly when the
\* record's confirmations field is absent, whatever the other fields hold.
C3_FinalizedIffNoConfirmations ==
    (evaluated # None /\ Unwrap(evaluated).commitment = "Finalized") =>
        (Unwrap(evaluated).satisfied <=> Unwrap(evaluated).status.confirmations = None)

\* a record that says finalized but carries a confirmations count was not satisfied
C3_Witness ==
    /\ evaluated # None
    /\ Unwrap(evaluated).commitment = "Finalized"
    /\ Unwrap(evaluated).status.confirmations = Some(MaxConfirmations)
    /\ Unwrap(evaluated).status.confirmation_status = Some("Finalized")
    /\ ~Unwrap(evaluated).satisfied

\* C4: with level Confirmed and an explicit confirmation_status, satisfies_commitment
\* is false for Processed and true for Confirmed and Finalized, whatever the
\* confirmations count.
C4_ExplicitStatusDecides ==
    (evaluated # None /\ Unwrap(evaluated).commitment = "Confirmed"
        /\ Unwrap(evaluated).status.confirmation_status # None) =>
        LET explicit == Unwrap(Unwrap(evaluated).status.confirmation_status)
        IN  /\ explicit = "Processed" => ~Unwrap(evaluated).satisfied
            /\ explicit \in {"Confirmed", "Finalized"} => Unwrap(evaluated).satisfied

\* an explicit Processed wins over a rooted record's absent confirmations
C4_Witness ==
    /\ evaluated # None
    /\ Unwrap(evaluated).commitment = "Confirmed"
    /\ Unwrap(evaluated).status.confirmation_status = Some("Processed")
    /\ Unwrap(evaluated).status.confirmations = None
    /\ ~Unwrap(evaluated).satisfied

\* C5: with level Confirmed and no explicit confirmation_status, satisfies_commitment
\* is true exactly when confirmations is absent or greater than 1.
C5_NumericFallback ==
    (evaluated # None /\ Unwrap(evaluated).commitment = "Confirmed"
        /\ Unwrap(evaluated).status.confirmation_status = None) =>
        LET confirmations == Unwrap(evaluated).status.confirmations
        IN  Unwrap(evaluated).satisfied <=>
                (confirmations = None \/ Unwrap(confirmations) > 1)

\* one confirmation is not enough
C5_Witness ==
    /\ evaluated # None
    /\ Unwrap(evaluated).commitment = "Confirmed"
    /\ Unwrap(evaluated).status.confirmation_status = None
    /\ Unwrap(evaluated).status.confirmations = Some(1)
    /\ ~Unwrap(evaluated).satisfied

\* C6, as claimed: with the configured commitment Processed or None, the check
\* get_signature_status applies is satisfied by every existing status record.
C6_ProcessedOrUnspecifiedAlwaysSatisfied ==
    (evaluated # None /\ config.commitment \in {None, Some("Processed")}) =>
        Unwrap(evaluated).satisfied

\* C6, amended: with the configured commitment Processed every existing record
\* satisfies the check; with None the check applied is the one for Confirmed.
C6_ProcessedAlwaysUnspecifiedAsConfirmed ==
    /\ (evaluated # None /\ config.commitment = Some("Processed")) =>
           Unwrap(evaluated).satisfied
    /\ (evaluated # None /\ config.commitment = None) =>
           LET status == Unwrap(evaluated).status
           IN  Unwrap(evaluated).satisfied <=>
                   IF status.confirmation_status # None
                   THEN status.confirmation_status # Some("Processed")
                   ELSE status.confirmations = None \/ Unwrap(status.confirmations) > 1

\* a barely processed record satisfies the check of a client configured Processed
C6_Witness ==
    /\ evaluated # None
    /\ config.commitment = Some("Processed")
    /\ Unwrap(evaluated).status.confirmation_status = Some("Processed")
    /\ Unwrap(evaluated).status.confirmations = Some(0)
    /\ Unwrap(evaluated).satisfied

\* the response is the JSON object whose only member besides the envelope is value
SoleMember(value) ==
    /\ response.t = "json"
    /\ response.v.envelope
    /\ \/ response.v.result = value /\ response.v.error = Absent
       \/ response.v.result = Absent /\ response.v.error = value

\* C7: a response {result: <well-formed signature string>} makes send_transaction,
\* send_transaction_unchecked and send_transaction_with_config return Ok of exactly
\* that signature; a string member is decided by the signature shape, never by the
\* error shape (no log line, no server message).
C7_SuccessShapeReturnsSignature ==
    Submitting =>
        /\ \A s \in SignatureStrings :
               (response.t = "json" /\ response.v.envelope
                    /\ response.v.result = StrValue(s) /\ response.v.error = Absent) =>
                   (ret = Ok(Signature(s)) /\ logs = <<>>)
        /\ \A s \in Strings :
               SoleMember(StrValue(s)) =>
                   /\ logs = <<>>
                   /\ ret.kind = "Ok" \/ ret = Err("ParseSignatureError")

\* the server answered with the second signature and the call returned it
C7_Witness ==
    /\ op = "send_transaction"
    /\ response.t = "json"
    /\ response.v.envelope
    /\ response.v.result = StrValue("sigB")
    /\ response.v.error = Absent
    /\ ret = Ok(Signature("sigB"))

\* C8: an error envelope {error: {code, message, data: {err, logs}}} makes the
\* submission fail with exactly the server's message, after writing every log
\* line once, in order, each tagged with its zero-based index.
C8_RejectionSurfacesMessageAndLogs ==
    (Submitting \/ Confirming) =>
        \A value \in JsonValues :
            (value.t = "txerr" /\ response.t = "json" /\ response.v.envelope
                 /\ response.v.result = Absent /\ response.v.error = value) =>
                /\ ret = Err(value.message)
                /\ Len(logs) = Len(value.logs)
                /\ \A i \in 1..Len(value.logs) : logs[i] = <<i - 1, value.logs[i]>>

\* scenario B: logs log0, log1 and the message Transaction simulation failed
C8_Witness ==
    /\ op = "send_transaction_with_config"
    /\ response.t = "json"
    /\ response.v.envelope
    /\ response.v.result = Absent
    /\ response.v.error = TxErrorValue("Transaction simulation failed", <<"log0", "log1">>)
    /\ ret = Err("Transaction simulation failed")
    /\ logs = <<<<0, "log0">>, <<1, "log1">>>>

\* C9: a payload that carries an error member instead of a result member is never
\* returned as Ok.
C9_ErrorEnvelopeNeverOk ==
    (Submitting /\ response.t = "json" /\ response.v.result = Absent
        /\ response.v.error # Absent) =>
        ret.kind # "Ok"

\* the object is neither an RpcResponse<String> nor an RpcResponse<RpcTransactionError>
NeitherShape(json) ==
    \/ ~json.envelope
    \/ json.result # Absent /\ json.error # Absent
    \/ json.result = Absent /\ json.error = Absent
    \/ json.result = OtherValue
    \/ json.error = OtherValue

\* C10: a response that is neither the signature shape nor the transaction-error
\* shape makes the submission fail with "failed to parse RPC response", without a
\* signature and without a log line.
C10_NeitherShapeIsParseError ==
    ((Submitting \/ Confirming) /\ response.t = "json" /\ NeitherShape(response.v)) =>
        /\ ret = Err("failed to parse RPC response")
        /\ logs = <<>>

\* an object with both a signature result and a transaction error is neither shape
C10_Witness ==
    /\ op = "send_transaction_with_config"
    /\ response.t = "json"
    /\ response.v.result = StrValue("sigA")
    /\ response.v.error = TxErrorValue("Transaction simulation failed", <<"log0">>)
    /\ ret = Err("failed to parse RPC response")
    /\ logs = <<>>

\* a request was dispatched in this step
Dispatched == requests' # <<>> /\ requests' # requests

\* b is a + 1 modulo 2^64, on the limbs: the low limbs of a that are all ones
\* become zero and the limb above them grows by one
IsSuccessor(a, b) ==
    \E k \in 0..4 :
        /\ \A i \in 1..k : a[i] = LimbBase - 1 /\ b[i] = 0
        /\ k < 4 => /\ a[k + 1] < LimbBase - 1
                    /\ b[k + 1] = a[k + 1] + 1
                    /\ \A i \in (k + 2)..4 : b[i] = a[i]

\* C11: the request-id counter is 0 on a new client; every dispatch, whether or
\* not the transport then fails, sends the counter's value as the request's id
\* and moves the counter by exactly one modulo 2^64 (u64::MAX is followed by
\* 0), so that two requests dispatched one after the other never carry the same
\* id; nothing else moves the counter.
C11_CounterAdvancesByOne ==
    /\ [](op = "new_with_config" => request_id = <<0, 0, 0, 0>>)
    /\ [][IF Dispatched
           THEN /\ requests'[Len(requests')].id = request_id
                /\ IsSuccessor(request_id, request_id')
                /\ request_id' # request_id
           ELSE request_id' = request_id]_vars

\* a request with id u64::MAX failed at the transport and the counter is 0
C11_Witness ==
    /\ requests # <<>>
    /\ requests[1].id = U64Max
    /\ response = TransportError
    /\ request_id = <<0, 0, 0, 0>>

\* C12: get_signature_status returns Ok(true) exactly when the response holds a
\* status record that satisfies the configured commitment, and Ok(false) exactly
\* when there is no record or the record does not satisfy it (stated for clients
\* with a configured level).
C12_TrueIffRecordSatisfies ==
    (op = "get_signature_status" /\ ret.kind = "Ok" /\ config.commitment # None) =>
        (ret.val <=>
            /\ HasRecord
            /\ satisfies_commitment(Unwrap(poll.v[1]), Unwrap(config.commitment)))

\* C13: a transport failure is never retried: an operation other than
\* send_and_confirm_transaction dispatches at most one request, and a request
\* that fails at the transport, be it the only one, the submission or any poll
\* of send_and_confirm_transaction, is the call's last: the call has returned the
\* transport's error.
C13_TransportFailureEndsCall ==
    /\ ~Confirming => Len(requests) <= 1
    /\ response = TransportError =>
           /\ pc = "idle"
           /\ ret = Err("transport")
           /\ Len(requests) = 1
    /\ poll = TransportError =>
           /\ pc = "idle"
           /\ ret = Err("transport")
           /\ requests[Len(requests)].method = "getSignatureStatuses"

\* the second poll of a send_and_confirm_transaction call failed at the transport
C13_Witness ==
    /\ Confirming
    /\ polls = 2
    /\ poll = TransportError
    /\ ret = Err("transport")
    /\ pc = "idle"

\* C14: the payload of a sendTransaction request is encoded as the submission
\* config handed to send_transaction_with_config says (base64 when it names no
\* encoding), so the payload's encoding and the declared encoding agree.
C14_PayloadEncodedAsDeclared ==
    (op = "send_transaction_with_config" /\ requests # <<>>) =>
        requests[1].params[1].encoding =
            (IF args.config.encoding = None THEN "Base64"
             ELSE Unwrap(args.config.encoding))

\* C15: the request of send_transaction_unchecked carries skip_preflight true
\* and preflight commitment Processed; the request of send_transaction carries
\* skip_preflight false and, as preflight commitment, the commitment the client
\* holds when the call is made.
C15_PreflightAsVariantSays ==
    /\ [](op = "send_transaction_unchecked" =>
             /\ requests[1].params[2].skip_preflight
             /\ requests[1].params[2].preflight_commitment = Some("Processed"))
    /\ [][(op' = "send_transaction" /\ Dispatched) =>
             /\ ~requests'[1].params[2].skip_preflight
             /\ requests'[1].params[2].preflight_commitment = config.commitment]_vars

\* send_transaction on a client whose commitment was set to Finalized
C15_Witness ==
    /\ op = "send_transaction"
    /\ config.commitment = Some("Finalized")
    /\ ~requests[1].params[2].skip_preflight
    /\ requests[1].params[2].preflight_commitment = Some("Finalized")

\* C16: the balance get_balance returns is the value of the server's response,
\* whatever the request-id counter holds, so calls answered with the same value
\* return the same balance; and each call moves the counter by one.
C16_BalanceIsResponseValue ==
    op = "get_balance" =>
        /\ response.t = "value" => ret = Ok(response.v)
        /\ IsSuccessor(requests[1].id, request_id)

\* the second call on a client is a get_balance, answered with 5500 lamports
C16_Witness ==
    /\ op = "get_balance"
    /\ calls = 2
    /\ requests[1].id = <<1, 0, 0, 0>>
    /\ response.t = "value"
    /\ response.v = 5500
    /\ ret = Ok(5500)

\* C17: a client built by new_with_config holds the config and the cluster it
\* was given and request id 0; set_commitment(c) makes the commitment c, None
\* included, and leaves the encoding, the cluster and the request id as they were.
C17_SetCommitmentFrame ==
    /\ [](op = "new_with_config" =>
             /\ config = args.config
             /\ net = args.net
             /\ request_id = <<0, 0, 0, 0>>)
    /\ [][op' = "set_commitment" =>
             /\ config'.commitment = args'.commitment
             /\ config'.encoding = config.encoding
             /\ net' = net
             /\ request_id' = request_id]_vars

\* set_commitment(None) on a client that has dispatched a request
C17_Witness ==
    /\ op = "set_commitment"
    /\ args.commitment = None
    /\ config.commitment = None
    /\ request_id = <<1, 0, 0, 0>>

\* the submission was answered with a well-formed signature string
SubmittedSignature(s) == s \in SignatureStrings /\ SoleMember(StrValue(s))

\* C18: a send_and_confirm_transaction call dispatches exactly one
\* sendTransaction request, before every getSignatureStatuses request; a
\* submission that fails ends the call with an error and without a poll; and
\* every poll asks about, and the call returns, the signature that the one
\* submission was answered with.
C18_OneSubmissionBeforePolls ==
    Confirming =>
        /\ requests[1].method = "sendTransaction"
        /\ \A i \in 2..Len(requests) : requests[i].method = "getSignatureStatuses"
        /\ (\A s \in Strings : ~SubmittedSignature(s)) =>
               /\ Len(requests) = 1
               /\ pc = "idle"
               /\ ret.kind = "Err"
        /\ \A s \in Strings :
               SubmittedSignature(s) =>
                   /\ \A i \in 2..Len(requests) : requests[i].params = <<<<s>>>>
                   /\ ret.kind = "Ok" => ret.val = Signature(s)

\* the submission returned the second signature and the second poll confirmed it
C18_Witness ==
    /\ Confirming
    /\ SubmittedSignature("sigB")
    /\ Len(requests) = 3
    /\ ret = Ok(Signature("sigB"))

\* the call's last poll returned Ok(satisfied)
PollReported(satisfied) ==
    /\ poll.t = "value"
    /\ Len(poll.v) > 0
    /\ status_result(poll.v[1], config.commitment) = satisfied

\* C19: the confirmation loop has no cap on its polls: after any number of polls,
\* a poll that succeeds and reports the commitment not satisfied leaves the call
\* running, and the loop sleeps and then polls again; the call returns only at a
\* poll that reports the commitment satisfied or at a poll that fails.
C19_NoCapOnPolls ==
    Confirming =>
        /\ (polls >= 1 /\ PollReported(FALSE)) =>
               /\ pc \in {"sleep", "poll"}
               /\ ret = Pending
        /\ pc = "sleep" => ENABLED send_and_confirm_sleep
        /\ (polls >= 1 /\ pc = "idle") =>
               \/ PollReported(TRUE) /\ ret.kind = "Ok"
               \/ poll = TransportError /\ ret.kind = "Err"

\* as many unsatisfied polls as the model follows, and the call is about to poll again
C19_Witness ==
    /\ Confirming
    /\ polls = MaxPolls
    /\ PollReported(FALSE)
    /\ pc = "poll"
    /\ ret = Pending

\* the operations that get_account serves
AccountOperations ==
    {"get_account", "get_and_deserialize_account_data",
     "get_and_deserialize_parsed_account_data", "get_owner"}

\* the operations that dispatch one request
SingleRequestOperations ==
    AccountOperations \cup
        {"get_multiple_accounts", "get_balance", "get_minimum_balance_for_rent_exemption",
         "request_airdrop", "get_latest_blockhash", "get_slot", "get_block_time",
         "get_signature_status", "send_transaction", "send_transaction_unchecked",
         "send_transaction_with_config"}

\* C20: a call of an operation other than send_and_confirm_transaction has
\* dispatched exactly one request (the getAccountInfo request for get_account
\* and the three operations built on it) and moved the request id by one; a
\* send_and_confirm_transaction call has dispatched one submission and one
\* request for each poll, each moving the request id by one.
C20_OneRequestPerCall ==
    /\ op \in SingleRequestOperations =>
           /\ Len(requests) = 1
           /\ IsSuccessor(requests[1].id, request_id)
    /\ op \in AccountOperations => requests[1].method = "getAccountInfo"
    /\ Confirming =>
           /\ Len(SelectSeq(requests, LAMBDA r : r.method = "sendTransaction")) = 1
           /\ Len(requests) = 1 + polls
           /\ \A i \in 1..(Len(requests) - 1) :
                  IsSuccessor(requests[i].id, requests[i + 1].id)
           /\ IsSuccessor(requests[Len(requests)].id, request_id)

\* get_owner returned the owner after the one getAccountInfo request
C20_Witness ==
    /\ op = "get_owner"
    /\ Len(requests) = 1
    /\ requests[1].method = "getAccountInfo"
    /\ request_id = <<1, 0, 0, 0>>
    /\ ret = Ok([pubkey |-> "owner32"])

\* C21: satisfaction is monotone in durability: a status record that satisfies
\* Finalized satisfies Confirmed, and one that satisfies Confirmed satisfies
\* Processed, whatever its confirmations and confirmation_status fields hold.
C21_SatisfactionMonotone ==
    HasRecord =>
        LET record == Unwrap(poll.v[1])
        IN  /\ satisfies_commitment(record, "Finalized") =>
                   satisfies_commitment(record, "Confirmed")
            /\ satisfies_commitment(record, "Confirmed") =>
                   satisfies_commitment(record, "Processed")

\* C22: get_signature_status returns Ok or Err for every response, a decoded
\* response with an empty status list included; it never aborts.
C22_StatusNeverAborts ==
    (op = "get_signature_status" /\ poll # NoOutcome) =>
        /\ pc = "idle"
        /\ ret.kind \in {"Ok", "Err"}

\* C23: the two readings of a status record agree: the record satisfies
\* Confirmed exactly when confirmation_status() is not Processed, and it
\* satisfies Finalized when it has no explicit field and confirmation_status()
\* is Finalized.
C23_ReadingsAgree ==
    HasRecord =>
        LET record == Unwrap(poll.v[1])
        IN  /\ satisfies_commitment(record, "Confirmed") <=>
                   confirmation_status(record) # "Processed"
            /\ (record.confirmation_status = None
                    /\ confirmation_status(record) = "Finalized") =>
                   satisfies_commitment(record, "Finalized")

=============================================================================
